---- MODULE Spec2Model ----
(***************************************************************************)
(* Model of scientific-libraries-test.py: module_version, run_check,       *)
(* parse_args and main.                                                    *)
(*                                                                         *)
(* The environment supplies, for every check, what importlib.import_module *)
(* and the check's verification function do: return, raise an exception    *)
(* that derives from Exception, or raise one that derives from             *)
(* BaseException only (SystemExit, KeyboardInterrupt).  Writes to the      *)
(* console and str() of a version attribute are taken to succeed.          *)
(*                                                                         *)
(* out is what the program has written to the console, in program order.   *)
(* calls and mark are history variables: calls lists the calls of          *)
(* run_check, import_module and the verification functions with what each  *)
(* raised, and mark[j] holds the positions in out and calls at which the   *)
(* j-th run_check call began.                                              *)
(***************************************************************************)
EXTENDS Integers, Sequences, FiniteSets, TLC

VARIABLES argv, pc, lite, checks, idx, failures, out, calls, mark, status,
          vmodule, vresult, vpc

vars == <<argv, pc, lite, checks, idx, failures, out, calls, mark, status,
          vmodule, vresult, vpc>>

runnerVars == <<argv, pc, lite, checks, idx, failures, out, calls, mark, status>>
versionVars == <<vmodule, vresult, vpc>>

(* ------------------------------ bounds --------------------------------- *)

\* longest command line tried
MaxArgs == 2
\* largest integer used as a version attribute value
MaxVerInt == 1

(* ------------------------- python values ------------------------------- *)

StrV(s) == [t |-> "str", s |-> s, i |-> 0]
IntV(i) == [t |-> "int", s |-> "", i |-> i]
NoneV == [t |-> "none", s |-> "", i |-> 0]

Values == {StrV("1.26.4"), StrV("unknown"), NoneV} \cup {IntV(i) : i \in 0..MaxVerInt}

\* str(x)
PyStr(v) ==
    CASE v.t = "str" -> v.s
      [] v.t = "int" -> ToString(v.i)
      [] v.t = "none" -> "None"

\* the attribute names a module object of the model may carry
AttrNames == {"__version__", "version", "VERSION"}

\* a module object: the attributes it exposes, with their values
Modules == UNION {[A -> Values] : A \in SUBSET AttrNames}

\* hasattr(module, attr)
hasattr(module, attr) == attr \in DOMAIN module

\* the candidate tuple of module_version's for loop
VersionAttrs == <<"__version__", "version", "VERSION">>

\* a plausible slip: the candidates tried in the opposite order
VersionAttrsReversed == <<"VERSION", "version", "__version__">>

RECURSIVE version_from(_, _, _)
version_from(module, attrs, k) ==
    IF k > Len(attrs) THEN "unknown"
    ELSE IF hasattr(module, attrs[k]) THEN PyStr(module[attrs[k]])
    ELSE version_from(module, attrs, k + 1)

module_version_reversed(module) == version_from(module, VersionAttrsReversed, 1)

module_version(module) == version_from(module, VersionAttrs, 1)

(* ------------------------- the check registry -------------------------- *)

Check(n, m, f) == [name |-> n, import_name |-> m, fn |-> f]

full_checks == <<
    Check("NumPy", "numpy", "check_numpy"),
    Check("Pandas", "pandas", "check_pandas"),
    Check("Matplotlib", "matplotlib", "check_matplotlib"),
    Check("SciPy", "scipy", "check_scipy"),
    Check("Scikit-learn", "sklearn", "check_sklearn"),
    Check("Statsmodels", "statsmodels", "check_statsmodels"),
    Check("OpenCV", "cv2", "check_opencv"),
    Check("Seaborn", "seaborn", "check_seaborn"),
    Check("OpenPyXL", "openpyxl", "check_openpyxl"),
    Check("JupyterLab", "jupyterlab", "check_jupyterlab") >>

lite_checks == <<
    Check("NumPy", "numpy", "check_numpy"),
    Check("Pandas", "pandas", "check_pandas"),
    Check("Matplotlib", "matplotlib", "check_matplotlib"),
    Check("JupyterLab", "jupyterlab", "check_jupyterlab") >>

\* a plausible slip: the selection inverted
select_checks_swapped(isLite) == IF isLite THEN full_checks ELSE lite_checks

\* checks = lite_checks if args.lite else full_checks
select_checks(isLite) == IF isLite THEN lite_checks ELSE full_checks

Range(s) == {s[k] : k \in 1..Len(s)}

(* --------------------------- the environment --------------------------- *)

\* The installation the script is run against: the module object that a
\* successful import of each library yields.  Most libraries set
\* __version__; the installation also holds one with __version__ and version,
\* one with VERSION alone and one with no version attribute.
Installed(import_name) ==
    CASE import_name = "cv2" ->
             [a \in {"__version__", "version"} |->
                 IF a = "__version__" THEN StrV("4.9.0") ELSE NoneV]
      [] import_name = "openpyxl" -> [a \in {"VERSION"} |-> IntV(3)]
      [] import_name = "matplotlib" -> [a \in {} |-> NoneV]
      [] OTHER -> [a \in {"__version__"} |-> StrV("1.26.4")]

\* what a raised exception is: its class, its message and, for SystemExit,
\* its code
Exc(cls, msg, code) == [cls |-> cls, msg |-> msg, code |-> code]

NoExc == Exc("", "", 0)

\* the exceptions that derive from BaseException and not from Exception: a
\* library or verification calling sys.exit(), and Ctrl-C while it runs
Aborts == {Exc("SystemExit", "0", 0), Exc("KeyboardInterrupt", "", 130)}

\* what importlib.import_module(import_name) can do
ImportOutcomes(import_name) ==
    {NoExc, Exc("ModuleNotFoundError", "No module named " \o import_name, 0)}
        \cup Aborts

\* what the verification function can do, the module being importable; a bare
\* assert raises AssertionError with an empty message.  check_jupyterlab
\* asserts that the module has __version__.
FnOutcomes(c) ==
    (IF c.fn = "check_jupyterlab" /\ ~hasattr(Installed(c.import_name), "__version__")
     THEN {} ELSE {NoExc})
        \cup {Exc("AssertionError", "", 0)} \cup Aborts

\* a plausible slip: except ImportError
except_ImportError(e) == e.cls \in {"ImportError", "ModuleNotFoundError"}

\* except Exception: SystemExit and KeyboardInterrupt derive from
\* BaseException only
except_Exception(e) == e.cls \notin {"SystemExit", "KeyboardInterrupt"}

\* the exit status of a process ended by an exception nothing catches:
\* SystemExit gives its code, KeyboardInterrupt 130 (the interpreter dies of
\* SIGINT), any other exception 1
UncaughtStatus(e) ==
    IF e.cls \in {"SystemExit", "KeyboardInterrupt"} THEN e.code ELSE 1

(* ------------------------------ console -------------------------------- *)

Line(k, a, n) == [k |-> k, a |-> a, n |-> n]

RECURSIVE join(_)
\* ', '.join(names)
join(names) ==
    IF Len(names) = 0 THEN ""
    ELSE IF Len(names) = 1 THEN names[1]
    ELSE names[1] \o ", " \o join(Tail(names))

Call(op, name, e) == [op |-> op, name |-> name, exc |-> e.cls]

(* ------------------------------ parse_args ----------------------------- *)

Tokens == {"--lite", "--li", "-h", "extra"}

ArgvSet == UNION {[1..n -> Tokens] : n \in 0..MaxArgs}

\* argparse: -h prints the help and exits 0; an unrecognised argument is an
\* error, exit 2; --lite and its unambiguous prefixes set args.lite
parse_result(a) ==
    IF "-h" \in Range(a) THEN "help"
    ELSE IF "extra" \in Range(a) THEN "error"
    ELSE "ok"

parse_lite(a) == \E k \in 1..Len(a) : a[k] \in {"--lite", "--li"}

(* ------------------------------ the runner ----------------------------- *)

EmptyModule == [a \in {} |-> NoneV]

Init ==
    /\ argv \in ArgvSet
    /\ pc = "INIT"
    /\ lite = FALSE
    /\ checks = <<>>
    /\ idx = 0
    /\ failures = <<>>
    /\ out = <<>>
    /\ calls = <<>>
    /\ mark = <<>>
    /\ status = -1
    /\ vmodule = EmptyModule
    /\ vresult = ""
    /\ vpc = "idle"

\* main, lines 149-172
ParseArgs ==
    /\ pc = "INIT"
    /\ IF parse_result(argv) = "ok"
       THEN /\ lite' = parse_lite(argv)
            /\ checks' = select_checks(parse_lite(argv))
            /\ out' = out \o <<Line("python", "executable", 0), Line("python", "version", 0)>>
            /\ pc' = "START"
            /\ status' = status
       ELSE /\ out' = Append(out, Line("argparse", parse_result(argv), 0))
            /\ status' = IF parse_result(argv) = "help" THEN 0 ELSE 2
            /\ pc' = "EXIT"
            /\ UNCHANGED <<lite, checks>>
    /\ failures' = <<>>
    /\ UNCHANGED <<argv, idx, calls, mark, versionVars>>

\* a plausible slip: the import name recorded instead of the display name
Handler_import_name(c, e) ==
    /\ failures' = Append(failures, c.import_name)
    /\ out' = out \o <<Line("status", "FAIL (" \o e.msg \o ")", 0), Line("traceback", e.cls, 1)>>
    /\ pc' = "FAILED"
    /\ status' = status

\* a plausible slip: the traceback not printed
Handler_no_traceback(c, e) ==
    /\ failures' = Append(failures, c.name)
    /\ out' = Append(out, Line("status", "FAIL (" \o e.msg \o ")", 0))
    /\ pc' = "FAILED"
    /\ status' = status

\* a plausible slip: the try block around the import alone, fn() after it
Handler_then_fn(c, e) ==
    /\ failures' = Append(failures, c.name)
    /\ out' = out \o <<Line("status", "FAIL (" \o e.msg \o ")", 0), Line("traceback", e.cls, 1)>>
    /\ pc' = IF pc = "LOADING" THEN "VERIFYING" ELSE "FAILED"
    /\ status' = status

\* a plausible slip: failures = [name] instead of failures.append(name)
Handler_overwrite(c, e) ==
    /\ failures' = <<c.name>>
    /\ out' = out \o <<Line("status", "FAIL (" \o e.msg \o ")", 0), Line("traceback", e.cls, 1)>>
    /\ pc' = "FAILED"
    /\ status' = status

\* the except handler of run_check, lines 27-30
Handler(c, e) ==
    /\ failures' = Append(failures, c.name)
    /\ out' = out \o <<Line("status", "FAIL (" \o e.msg \o ")", 0), Line("traceback", e.cls, 1)>>
    /\ pc' = "FAILED"
    /\ status' = status

\* an exception no handler matches leaves run_check and main
Propagate(e) ==
    /\ pc' = "EXIT"
    /\ status' = UncaughtStatus(e)
    /\ UNCHANGED <<failures, out>>

Raise(c, e) == IF except_Exception(e) THEN Handler(c, e) ELSE Propagate(e)

\* a plausible slip: the loop left at the first failed check
EnterCheck_fail_fast ==
    /\ pc \in {"START", "PASSED"}
    /\ idx < Len(checks)
    /\ idx' = idx + 1
    /\ out' = Append(out, Line("header", checks[idx + 1].name, 0))
    /\ calls' = Append(calls, Call("run_check", checks[idx + 1].name, NoExc))
    /\ mark' = Append(mark, [o |-> Len(out) + 1, c |-> Len(calls) + 1])
    /\ pc' = "LOADING"
    /\ UNCHANGED <<argv, lite, checks, failures, status, versionVars>>

\* the for loop takes the next check and run_check prints its header, lines
\* 174-175 and 19-20
EnterCheck ==
    /\ pc \in {"START", "PASSED", "FAILED"}
    /\ idx < Len(checks)
    /\ idx' = idx + 1
    /\ out' = Append(out, Line("header", checks[idx + 1].name, 0))
    /\ calls' = Append(calls, Call("run_check", checks[idx + 1].name, NoExc))
    /\ mark' = Append(mark, [o |-> Len(out) + 1, c |-> Len(calls) + 1])
    /\ pc' = "LOADING"
    /\ UNCHANGED <<argv, lite, checks, failures, status, versionVars>>

\* run_check, lines 22-24
ImportModule ==
    /\ pc = "LOADING"
    /\ LET c == checks[idx] IN
       \E e \in ImportOutcomes(c.import_name) :
          /\ calls' = Append(calls, Call("import_module", c.name, e))
          /\ IF e = NoExc
             THEN /\ out' = out \o <<Line("module", c.import_name, 0),
                                     Line("version", module_version(Installed(c.import_name)), 0)>>
                  /\ pc' = "VERIFYING"
                  /\ UNCHANGED <<failures, status>>
             ELSE Raise(c, e)
    /\ UNCHANGED <<argv, lite, checks, idx, mark, versionVars>>

\* run_check, lines 25-26
CallFn ==
    /\ pc = "VERIFYING"
    /\ LET c == checks[idx] IN
       \E e \in FnOutcomes(c) :
          /\ calls' = Append(calls, Call("fn", c.name, e))
          /\ IF e = NoExc
             THEN /\ out' = Append(out, Line("status", "OK", 0))
                  /\ pc' = "PASSED"
                  /\ UNCHANGED <<failures, status>>
             ELSE Raise(c, e)
    /\ UNCHANGED <<argv, lite, checks, idx, mark, versionVars>>

\* a plausible slip: return len(failures)
main_return_count(fails) == Len(fails)

\* the value main returns, lines 178-183
main_return(fails) == IF Len(fails) > 0 THEN 1 ELSE 0

\* the lines main prints after the loop, lines 177-182
summary_lines(fails) ==
    IF Len(fails) > 0
    THEN <<Line("result", "", 0), Line("FAILED", join(fails), Len(fails))>>
    ELSE <<Line("result", "", 0), Line("SUCCESS", "", 0)>>

\* a plausible slip: the summary indented into the loop body
Summary_in_loop ==
    /\ pc \in {"PASSED", "FAILED"}
    /\ out' = out \o summary_lines(failures)
    /\ status' = main_return(failures)
    /\ pc' = "SUMMARY"
    /\ UNCHANGED <<argv, lite, checks, idx, failures, calls, mark, versionVars>>

\* main, lines 177-183
Summary ==
    /\ pc \in {"START", "PASSED", "FAILED"}
    /\ idx = Len(checks)
    /\ out' = out \o summary_lines(failures)
    /\ status' = main_return(failures)
    /\ pc' = "SUMMARY"
    /\ UNCHANGED <<argv, lite, checks, idx, failures, calls, mark, versionVars>>

\* line 187: raise SystemExit(main())
Exit ==
    /\ pc = "SUMMARY"
    /\ pc' = "EXIT"
    /\ UNCHANGED <<argv, lite, checks, idx, failures, out, calls, mark, status, versionVars>>

Next == ParseArgs \/ EnterCheck \/ ImportModule \/ CallFn \/ Summary \/ Exit

Spec == Init /\ [][Next]_vars

\* the interpreter runs the single thread until the process ends
FairSpec == Spec /\ WF_vars(Next)

(* -------------------- module_version on its own ------------------------ *)

VInit ==
    /\ argv = <<>>
    /\ pc = "INIT"
    /\ lite = FALSE
    /\ checks = <<>>
    /\ idx = 0
    /\ failures = <<>>
    /\ out = <<>>
    /\ calls = <<>>
    /\ mark = <<>>
    /\ status = -1
    /\ vmodule \in Modules
    /\ vresult = ""
    /\ vpc = "idle"

CallModuleVersion ==
    /\ vpc = "idle"
    /\ vresult' = module_version(vmodule)
    /\ vpc' = "returned"
    /\ UNCHANGED <<vmodule, runnerVars>>

VNext == CallModuleVersion

VSpec == VInit /\ [][VNext]_vars

(* --------------------- what the run has done so far -------------------- *)

Names(cs) == [k \in 1..Len(cs) |-> cs[k].name]

IsRunCheck(c) == c.op = "run_check"

\* the display names run_check was called with, in call order
RunCheckNames == Names(SelectSeq(calls, IsRunCheck))

AbortClasses == {"SystemExit", "KeyboardInterrupt"}

\* no import and no verification function raised SystemExit or KeyboardInterrupt
NoAbort == \A k \in DOMAIN calls : calls[k].exc \notin AbortClasses

\* the [RESULT] header has been printed
Summarised == \E k \in DOMAIN out : out[k].k = "result"

\* parse_args returned and a sequence was selected
Selected == checks # <<>>

\* the import or the verification function of the check named n raised
Raised(n) ==
    \E k \in DOMAIN calls :
        calls[k].name = n /\ calls[k].op \in {"import_module", "fn"} /\ calls[k].exc # ""

StatusLines(a) == {k \in DOMAIN out : out[k].k = "status" /\ out[k].a = a}

FailLines == {k \in DOMAIN out : out[k].k = "status" /\ out[k].a # "OK"}

ResultCount == Cardinality({k \in DOMAIN out : out[k].k = "result"})

LiteNames == <<"NumPy", "Pandas", "Matplotlib", "JupyterLab">>

(* ------------------------------- C1 ------------------------------------ *)

C2_FailureListExact ==
    Summarised =>
        LET nfail == Cardinality(FailLines) IN
        /\ failures = SelectSeq(Names(checks), Raised)
        /\ Cardinality(Range(failures)) = Len(failures)
        /\ Len(failures) = nfail
        /\ \A k \in DOMAIN out :
              out[k].k = "FAILED" =>
                  /\ out[k].n = nfail
                  /\ out[k].a = join(failures)
        /\ (Len(failures) > 0) <=> (\E k \in DOMAIN out : out[k].k = "FAILED")

\* a full run reached the summary with two failed checks around a passed one
C2_Witness ==
    /\ pc = "SUMMARY"
    /\ failures = <<"NumPy", "Matplotlib", "JupyterLab">>
    /\ Cardinality(StatusLines("OK")) = 7

(* ------------------------------- C3 ------------------------------------ *)

LiteIsStrictSubset ==
    /\ Range(lite_checks) \subseteq Range(full_checks)
    /\ Range(lite_checks) # Range(full_checks)
    /\ Len(lite_checks) = 4
    /\ Len(full_checks) = 10
    /\ Names(lite_checks) = LiteNames

\* exactly one of the lite libraries is missing and nothing else went wrong
OneLiteLibraryMissing ==
    /\ lite
    /\ Cardinality({k \in DOMAIN calls : calls[k].exc = "ModuleNotFoundError"}) = 1
    /\ \A k \in DOMAIN calls : calls[k].exc \in {"", "ModuleNotFoundError"}

Tag(l) == IF l.k = "status" THEN (IF l.a = "OK" THEN "OK" ELSE "FAIL") ELSE l.k

\* the console output of the j-th check: the lines from its header up to
\* the next header, the [RESULT] header or the end
OutOf(j) ==
    SubSeq(out, mark[j].o,
           IF j < Len(mark) THEN mark[j + 1].o - 1
           ELSE IF Len(out) >= 2 /\ out[Len(out) - 1].k = "result" THEN Len(out) - 2
           ELSE Len(out))

Tags(seg) == [k \in 1..Len(seg) |-> Tag(seg[k])]

PassShape == <<"header", "module", "version", "OK">>
VerifyFailShape == <<"header", "module", "version", "FAIL", "traceback">>
LoadFailShape == <<"header", "FAIL", "traceback">>

\* the checks whose run_check call has returned
Finished == IF pc \in {"LOADING", "VERIFYING"} \/ ~NoAbort THEN idx - 1 ELSE idx

\* what is printed of a check that is still running or was cut short
UnfinishedShapes == {<<"header">>, <<"header", "module", "version">>}

\* the lines main prints around the checks
Preamble == <<Line("python", "executable", 0), Line("python", "version", 0)>>

VersionStrings == {"unknown", "1.26.4", "4.9.0", "3"}

\* C6 as claimed: every check that has finished, however it ended, printed
\* header, module line, version line and one status line (and a traceback
\* after FAIL).
C6_StatusAlwaysAfterModuleAndVersion ==
    LET fin == Finished IN
    \A j \in 1..fin : Tags(OutOf(j)) \in {PassShape, VerifyFailShape}

\* C6 amended: a check that passes prints header, module, version,
\* 'status: OK'; a check whose verification fails prints header, module,
\* version, 'status: FAIL (...)', traceback; a check whose import fails
\* prints header, 'status: FAIL (...)', traceback, without module and
\* version lines; every finished check has exactly one status line; after
\* the last check come the [RESULT] header and then the failure summary or
\* the success message, which is the last line.  Lines are only ever added
\* at the end of the output.
ConsoleGrammar ==
    Selected =>
        /\ Len(mark) = idx
        /\ SubSeq(out, 1, 2) = Preamble
        /\ idx >= 1 => mark[1].o = Len(Preamble) + 1
        /\ LET fin == Finished IN
           \A j \in 1..idx :
              LET seg == OutOf(j)
                  c == checks[j]
              IN /\ seg[1] = Line("header", c.name, 0)
                 /\ IF j <= fin
                    THEN Tags(seg) \in {PassShape, VerifyFailShape, LoadFailShape}
                    ELSE Tags(seg) \in UnfinishedShapes
                 /\ Len(seg) >= 3 /\ Tag(seg[2]) = "module" =>
                       /\ seg[2].a = c.import_name
                       /\ seg[3].a \in VersionStrings
        /\ IF Summarised
           THEN /\ Finished = Len(checks)
                /\ Tag(out[Len(out) - 1]) = "result"
                /\ Tag(out[Len(out)]) \in {"FAILED", "SUCCESS"}
                /\ ResultCount = 1
           ELSE \A k \in DOMAIN out : Tag(out[k]) \notin {"FAILED", "SUCCESS"}

C6_ConsoleGrammar ==
    /\ []ConsoleGrammar
    /\ [][Len(out') >= Len(out) /\ SubSeq(out', 1, Len(out)) = out]_vars

\* a finished run that printed a load failure (FAIL right after the header),
\* a verification failure (FAIL after the version line), a pass, and a
\* version reported as unknown
C6_Witness ==
    /\ Summarised
    /\ Len(checks) = 4
    /\ Tags(OutOf(1)) = LoadFailShape
    /\ Tags(OutOf(2)) = VerifyFailShape
    /\ Tags(OutOf(3)) = PassShape
    /\ OutOf(3)[3].a = "unknown"

(* ------------------------------- C8 ------------------------------------ *)

\* the steps of the state machine
PcSteps ==
    { <<"INIT", "START">>, <<"INIT", "EXIT">>,
      <<"START", "LOADING">>, <<"START", "SUMMARY">>,
      <<"LOADING", "VERIFYING">>, <<"LOADING", "FAILED">>, <<"LOADING", "EXIT">>,
      <<"VERIFYING", "PASSED">>, <<"VERIFYING", "FAILED">>, <<"VERIFYING", "EXIT">>,
      <<"PASSED", "LOADING">>, <<"PASSED", "SUMMARY">>,
      <<"FAILED", "LOADING">>, <<"FAILED", "SUMMARY">>,
      <<"SUMMARY", "EXIT">> }

CallsOf(j) ==
    SubSeq(calls, mark[j].c, IF j < Len(mark) THEN mark[j + 1].c - 1 ELSE Len(calls))

\* the exception the import of the j-th check raised, "" if it returned, and
\* "-" if import_module has not been called yet
ImportExc(j) == LET cs == CallsOf(j) IN IF Len(cs) >= 2 THEN cs[2].exc ELSE "-"

\* the same for the verification function
FnExc(j) == LET cs == CallsOf(j) IN IF Len(cs) >= 3 THEN cs[3].exc ELSE "-"

ImportBeforeVerify ==
    /\ Len(mark) = idx
    /\ idx >= 1 => mark[1].c = 1
    /\ \A j \in 1..idx :
          LET cs == CallsOf(j)
              ts == Tags(OutOf(j))
              printed == Range(ts)
              fx == IF Len(cs) >= 3 THEN cs[3].exc ELSE "-"
              ix == IF Len(cs) >= 2 THEN cs[2].exc ELSE "-"
          IN /\ \A k \in 1..Len(cs) : cs[k].name = checks[j].name
             /\ [k \in 1..Len(cs) |-> cs[k].op] \in
                   {<<"run_check">>, <<"run_check", "import_module">>,
                    <<"run_check", "import_module", "fn">>}
             /\ fx # "-" =>
                   /\ ix = ""
                   /\ SubSeq(ts, 1, 3) = <<"header", "module", "version">>
             /\ ix \notin {"", "-"} =>
                   /\ fx = "-"
                   /\ "OK" \notin printed
                   /\ "version" \notin printed
                   /\ (ix \notin AbortClasses) <=> (checks[j].name \in Range(failures))
             /\ "OK" \in printed => fx = ""
             /\ fx = "" => ts = PassShape
             /\ ~("OK" \in printed /\ "FAIL" \in printed)
    /\ pc = "VERIFYING" =>
          (Tags(OutOf(idx)) = <<"header", "module", "version">> /\ FnExc(idx) = "-")

\* a step that calls a verification function starts where the import of
\* that check has returned and the version line is the last line printed
FnCalledAfterVersion ==
    (Len(calls') > Len(calls) /\ calls'[Len(calls')].op = "fn") =>
        /\ pc = "VERIFYING"
        /\ calls[Len(calls)] = [op |-> "import_module", name |-> checks[idx].name, exc |-> ""]
        /\ out[Len(out)].k = "version"

RaisedException(n) ==
    \E k \in DOMAIN calls :
        calls[k].name = n /\ calls[k].exc \notin (AbortClasses \cup {""})

\* C10: a step changes the failure list only by appending the display name
\* of the check that is running, and only when that check fails; a check
\* that passes leaves the list unchanged; the list never holds more names
\* than checks were run; a check that was run is on the list exactly when
\* its own import or verification raised.
C10_FailureListFrame ==
    /\ [][ /\ (pc' = "FAILED" /\ pc \in {"LOADING", "VERIFYING"}) =>
                failures' = Append(failures, checks[idx].name)
           /\ ~(pc' = "FAILED" /\ pc \in {"LOADING", "VERIFYING"}) => failures' = failures
           /\ pc' = "PASSED" => failures' = failures ]_vars
    /\ [](Len(failures) <= idx)
    /\ [](\A j \in 1..idx : (checks[j].name \in Range(failures)) <=> RaisedException(checks[j].name))
    /\ [](\A j \in 1..Len(checks) : j > idx => checks[j].name \notin Range(failures))

\* two checks failed and a third passed, leaving the list as it was
C10_Witness ==
    /\ pc = "PASSED"
    /\ idx = 3
    /\ failures = <<"NumPy", "Pandas">>

(* ------------------------------- C7 ------------------------------------ *)

Exposed == {a \in AttrNames : hasattr(vmodule, a)}

\* C7 as claimed: the result is the string 'unknown' exactly when the module
\* has none of the three attributes.
C7_UnknownIffNoAttribute ==
    vpc = "returned" => ((vresult = "unknown") <=> (Exposed = {}))

\* C7 amended: the result is str() of __version__ if the module has it,
\* else of version if it has that, else of VERSION if it has that, and the
\* string 'unknown' if it has none; a module whose first present attribute
\* is itself the string 'unknown' also yields 'unknown'.
C7_FirstPresentWins ==
    vpc = "returned" =>
        /\ "__version__" \in Exposed => vresult = PyStr(vmodule["__version__"])
        /\ ("__version__" \notin Exposed /\ "version" \in Exposed) =>
              vresult = PyStr(vmodule["version"])
        /\ (Exposed = {"VERSION"}) => vresult = PyStr(vmodule["VERSION"])
        /\ Exposed = {} => vresult = "unknown"
        /\ vresult = "unknown" =>
              \/ Exposed = {}
              \/ \E a \in Exposed : vmodule[a] = StrV("unknown")

\* a module with __version__ and a different VERSION: __version__ is reported
C7_Witness ==
    /\ vpc = "returned"
    /\ Exposed = {"__version__", "VERSION"}
    /\ vmodule["__version__"] = IntV(1)
    /\ vmodule["VERSION"] = StrV("1.26.4")
    /\ vresult = "1"

====
